---- MODULE Spec2Model ----
(***************************************************************************)
(* A model of SMAC-M's map file generator:                                 *)
(*   - mapgen/chartsymbols.py: the ChartSymbols catalog (constructor,      *)
(*     load_symbols, load_lookups, the get_*_mapfile queries);             *)
(*   - generate_map_config.py: the command line script.                    *)
(* Spec runs the catalog, SpecMain runs the script.                        *)
(***************************************************************************)
EXTENDS Integers, Sequences, FiniteSets, TLC

VARIABLES
    \* ---- ChartSymbols ----
    file_exists,      \* os.path.isfile(file)
    root,             \* the parsed document: its <symbol> and <lookup> nodes
    args_cs,          \* the constructor's arguments
    cs_pc,            \* "new", "symbols", "lookups", "ready", "raised"
    pos,              \* index in the node list the running loop iterates
    excluded_lookups,
    symbols_def,
    point_lookups,
    line_lookups,
    polygon_lookups,
    before,           \* the four tables as they were before the last node
    layer,            \* what the last get_*_mapfile call returned
    \* ---- generate_map_config.py ----
    argv,             \* command line, configuration file and file system
    pc,               \* position in the script; where it stopped once exited
    exit_status,      \* -1 while running, else the process's exit status
    environ,          \* os.environ['TOPMAR_FLOATING']
    paths,            \* data_path, map_path, rule_set_path once resolved
    rules,            \* state of the colour tables and layer rules on disk
    calls             \* the calls made so far, in order

cat_vars == <<file_exists, root, args_cs, cs_pc, pos, excluded_lookups,
              symbols_def, point_lookups, line_lookups, polygon_lookups,
              before, layer>>
main_vars == <<argv, pc, exit_status, environ, paths, rules, calls>>
vars == <<cat_vars, main_vars>>

\* Python's None, for values that are strings otherwise.
None == "None"

\* ------------------------------------------------------------------------
\* Bounds
\* ------------------------------------------------------------------------
\* Number of <symbol> and <lookup> nodes in a document.
MaxNodes == 2
\* Number of entries of mapgen.generate_symbolset.symbolsets.
NumSymbolsets == 2

\* ------------------------------------------------------------------------
\* Text: a string is the sequence of its characters
\* ------------------------------------------------------------------------
Digits == {"0", "1", "2", "3", "4", "5", "6", "7", "8", "9"}

DigitVal(c) ==
    CASE c = "0" -> 0 [] c = "1" -> 1 [] c = "2" -> 2 [] c = "3" -> 3
      [] c = "4" -> 4 [] c = "5" -> 5 [] c = "6" -> 6 [] c = "7" -> 7
      [] c = "8" -> 8 [] c = "9" -> 9

\* int(s) succeeds: s is a decimal numeral (an absent attribute, the empty
\* string and any other character make int() raise).
IsIntText(s) == Len(s) > 0 /\ \A i \in 1..Len(s) : s[i] \in Digits

RECURSIVE IntOf(_)
IntOf(s) ==
    IF s = <<>> THEN 0
    ELSE 10 * IntOf(SubSeq(s, 1, Len(s) - 1)) + DigitVal(s[Len(s)])

\* str.split(';'): the parts between the separators, empty ones included;
\* ''.split(';') is [''].
RECURSIVE SplitFrom(_, _, _)
SplitFrom(s, cur, acc) ==
    IF s = <<>> THEN Append(acc, cur)
    ELSE IF Head(s) = ";" THEN SplitFrom(Tail(s), <<>>, Append(acc, cur))
    ELSE SplitFrom(Tail(s), Append(cur, Head(s)), acc)

Split(s) == SplitFrom(s, <<>>, <<>>)

\* dict.setdefault(key, []) and dict.get(key, []), a dict being a function.
SetDefault(d, key) == IF key \in DOMAIN d THEN d ELSE d @@ (key :> <<>>)
Get(d, key) == IF key \in DOMAIN d THEN d[key] ELSE <<>>
Put(d, key, val) == [k \in DOMAIN d \cup {key} |-> IF k = key THEN val ELSE d[k]]
EmptyDict == <<>>

\* ------------------------------------------------------------------------
\* mapgen.lookup, mapgen.instructions, mapgen.cs, mapgen.layer
\* ------------------------------------------------------------------------
\* Lookup(...): a lookup rule. src is the index in root of the <lookup> node
\* the rule was built from (0: none), kept for the properties only.
Lookup(id, table, display, comment, instruction, rule, display_priority, src) ==
    [id |-> id, table |-> table, display |-> display, comment |-> comment,
     instruction |-> instruction, rules |-> rule,
     display_priority |-> display_priority, src |-> src]

\* a @ b for two lookups: the fields of a, completed by those of b; the
\* instructions and the rules of both.
Combine(a, b) ==
    [id |-> IF a.id # "" THEN a.id ELSE b.id,
     table |-> IF a.table # None THEN a.table ELSE b.table,
     display |-> IF a.display # None THEN a.display ELSE b.display,
     comment |-> IF a.comment # "" THEN a.comment ELSE b.comment,
     instruction |-> a.instruction \o b.instruction,
     rules |-> a.rules \o b.rules,
     display_priority |-> IF a.display_priority # None
                          THEN a.display_priority ELSE b.display_priority,
     src |-> IF a.src # 0 THEN a.src ELSE b.src]

\* lookups @ others: every lookup combined with every other, in order.
RECURSIVE MatMul(_, _)
MatMul(ls, others) ==
    IF ls = <<>> THEN <<>>
    ELSE [j \in 1..Len(others) |-> Combine(Head(ls), others[j])]
         \o MatMul(Tail(ls), others)

\* lookups.add_instruction(command): on every lookup of the collection.
AddInstruction(ls, command) ==
    [j \in 1..Len(ls) |-> [ls[j] EXCEPT !.instruction = Append(@, command)]]

\* get_command(part): "XX(arg)" is the command XX with argument arg.
get_command(part) ==
    [kind |-> SubSeq(part, 1, 2), arg |-> SubSeq(part, 4, Len(part) - 1),
     outcome |-> 0]

IsCS(command) == command.kind = <<"C", "S">>

\* Number of outcomes a conditional symbology procedure selects among.
CSOutcomes(proc) ==
    CASE proc = <<"D">> -> 2
      [] proc = <<"L">> -> 3
      [] OTHER -> 2

\* lookups_from_cs(procedure, lookup type, feature name): one lookup per
\* outcome of the procedure, each with the outcome's rule and instruction.
lookups_from_cs(proc, lookup_type, name) ==
    [k \in 1..CSOutcomes(proc) |->
        Lookup("", None, None, "",
               <<[kind |-> <<"C", "S">>, arg |-> proc, outcome |-> k]>>,
               <<[code |-> "CS", type |-> lookup_type, name |-> name,
                  outcome |-> k]>>, None, 0)]

\* MSFilter.from_attrcode(text), and MSAnd(*filters) as their sequence.
from_attrcode(text) == [code |-> text, type |-> "", name |-> "", outcome |-> 0]
MSAnd(texts) == [j \in 1..Len(texts) |-> from_attrcode(texts[j])]

\* Layer(layer, feature, type, group, msd, fields, lookups, chartsymbols),
\* wrapped in LightsLayer when lights is set.
Layer(feature, type, lookups, lights) ==
    [feature |-> feature, type |-> type, lookups |-> lookups, lights |-> lights]

NoLayer == Layer("", "", <<>>, FALSE)

\* ------------------------------------------------------------------------
\* Documents: the <symbol> and <lookup> nodes of a chartsymbols file
\* ------------------------------------------------------------------------
SY_A == <<"S", "Y", "(", "A", ")">>
LS_B == <<"L", "S", "(", "B", ")">>
AC_D == <<"A", "C", "(", "D", ")">>
CS_D == <<"C", "S", "(", "D", ")">>
CS_L == <<"C", "S", "(", "L", ")">>
Semi == <<";">>

\* <lookup id name><type/><table-name/><display-cat/><comment/>
\* <instruction/><attrib-code/>*<disp-prio/></lookup>; absent names the
\* children the node lacks.
LookupNode(id, name, type, table, display, instruction, absent) ==
    [tag |-> "lookup", id |-> id, name |-> name, type |-> type,
     table |-> table, display |-> display, comment |-> "comment",
     instruction |-> instruction, attribs |-> <<"DRVAL1">>,
     prio |-> "Area 1", absent |-> absent]

LookupChildren ==
    {"type", "table-name", "display-cat", "comment", "instruction", "disp-prio"}

\* Feature names are S-57 object class acronyms; 'X-SNDG', the key of the
\* virtual entry load_lookups adds, is none.
WellFormedLookups ==
    { LookupNode("1", "DEPARE", "Area", "Plain", "Standard", AC_D, {}),
      LookupNode("2", "DEPARE", "Area", "Plain", "Displaybase", CS_D, {}),
      LookupNode("3", "LIGHTS", "Point", "Simplified", "Standard",
                 SY_A \o Semi \o Semi \o CS_L \o Semi \o LS_B, {}),
      LookupNode("5", "DEPARE", "Line", "Lines", "Displaybase",
                 LS_B \o Semi \o SY_A \o Semi, {}),
      LookupNode("6", "DEPARE", "Area", "Symbolized", "Other", <<>>, {}),
      LookupNode("7", "M_QUAL", "Area", "Plain", "Standard", AC_D, {}),
      LookupNode("9", "LIGHTS", "Text", "Simplified", "Standard", SY_A, {}),
      LookupNode("11", "DEPARE", "Line", "Plain", "Standard",
                 CS_D \o Semi \o CS_L, {}) }

\* One node per required child, lacking it; each would be admitted
\* otherwise.
MalformedLookups ==
    { LookupNode("20", "LIGHTS", "Point", "Simplified", "Displaybase", SY_A, {c}) :
        c \in LookupChildren }

\* <symbol><name/><bitmap width height><pivot x y/></bitmap></symbol>;
\* absent names the children and attributes the node lacks.
SymbolNode(name, width, height, x, y, absent) ==
    [tag |-> "symbol", name |-> name, width |-> width, height |-> height,
     x |-> x, y |-> y, absent |-> absent]

WellFormedSymbols ==
    { SymbolNode("BOYCAR01", <<"1", "6">>, <<"8">>, <<"3">>, <<"4">>, {}),
      SymbolNode("LIGHTS11", <<"9">>, <<"2", "0">>, <<"0">>, <<"1">>, {}) }

MalformedSymbols ==
    { SymbolNode("BOYCAR01", <<"7">>, <<"7">>, <<"1">>, <<"1">>, {c}) :
        c \in {"name", "bitmap", "pivot", "height"} }
    \cup { SymbolNode("BOYCAR01", <<"1", "x">>, <<"7">>, <<"1">>, <<"1">>, {}) }

Nodes == WellFormedLookups \cup MalformedLookups
         \cup WellFormedSymbols \cup MalformedSymbols

Documents == UNION { [1..n -> Nodes] : n \in 0..MaxNodes }

\* root.iter(tag): the indices of the nodes with that tag, in document order.
Iter(doc, tag) == SelectSeq([j \in 1..Len(doc) |-> j], LAMBDA j : doc[j].tag = tag)

\* ChartSymbols(file, point_table, area_table, displaycategory, color_table,
\* excluded_lookups); displaycategory and excluded_lookups may be None.
Arguments ==
    { [point_table |-> "Simplified", area_table |-> "Plain",
       displaycategory |-> [none |-> TRUE, list |-> <<>>],
       excluded_lookups |-> [none |-> TRUE, list |-> <<>>]],
      [point_table |-> "Paper", area_table |-> "Symbolized",
       displaycategory |-> [none |-> FALSE, list |-> <<"Other", "Displaybase">>],
       excluded_lookups |-> [none |-> FALSE, list |-> <<>>]],
      [point_table |-> "Simplified", area_table |-> "Plain",
       displaycategory |-> [none |-> FALSE, list |-> <<"Displaybase">>],
       excluded_lookups |-> [none |-> FALSE, list |-> <<"LIGHTS">>]] }

Range(seq) == { seq[j] : j \in 1..Len(seq) }

\* ------------------------------------------------------------------------
\* ChartSymbols
\* ------------------------------------------------------------------------
Tables == [symbols_def |-> symbols_def, point_lookups |-> point_lookups,
           line_lookups |-> line_lookups, polygon_lookups |-> polygon_lookups]

\* The body of load_symbols' try block raises: a child or attribute is
\* absent (find() or get() gives None) or int() rejects an attribute.
SymbolRaises(n) ==
    \/ n.absent # {}
    \/ ~IsIntText(n.width) \/ ~IsIntText(n.height)
    \/ ~IsIntText(n.x) \/ ~IsIntText(n.y)

\* Mutant of load_symbol: the entry is stored with its size before the pivot
\* is read.
MutLoadSymbolSizeFirst(defs, n) ==
    IF n.absent \subseteq {"pivot"} /\ IsIntText(n.width) /\ IsIntText(n.height)
    THEN Put(defs, n.name,
             [pivot |-> IF SymbolRaises(n) THEN <<0, 0>>
                        ELSE <<IntOf(n.x), IntOf(n.y)>>,
              size |-> <<IntOf(n.width), IntOf(n.height)>>])
    ELSE defs

\* One iteration of load_symbols' first loop: symbols_def afterwards.
load_symbol(defs, n) ==
    IF SymbolRaises(n) THEN defs
    ELSE Put(defs, n.name, [pivot |-> <<IntOf(n.x), IntOf(n.y)>>,
                            size |-> <<IntOf(n.width), IntOf(n.height)>>])

\* The body of load_lookups' try block raises AttributeError: find() gave
\* None for a required child.
LookupRaises(n) == n.absent \cap LookupChildren # {}

\* display in displaycategory, None having become AllInclusive().
InCategory(display, displaycategory) ==
    displaycategory.none \/ display \in Range(displaycategory.list)

\* Mutant of Admitted: the display category is not looked at.
MutAdmittedAnyCategory(n, a) ==
    n.table \in {a.point_table, a.area_table, "Lines"}

\* The condition that admits a node to the tables.
Admitted(n, a) ==
    /\ n.table \in {a.point_table, a.area_table, "Lines"}
    /\ InCategory(n.display, a.displaycategory)

\* Mutant of ProcessParts: a CS part combines the other way round, the
\* lookups of lookups_from_cs first.
RECURSIVE MutProcessPartsCSFirst(_, _, _, _)
MutProcessPartsCSFirst(parts, lookups, lookup_type, name) ==
    IF parts = <<>> THEN lookups
    ELSE LET part == Head(parts)
             command == get_command(part)
         IN  IF part = <<>>
             THEN MutProcessPartsCSFirst(Tail(parts), lookups, lookup_type, name)
             ELSE IF IsCS(command)
             THEN MutProcessPartsCSFirst(Tail(parts),
                      MatMul(lookups_from_cs(command.arg, lookup_type, name), lookups),
                      lookup_type, name)
             ELSE MutProcessPartsCSFirst(Tail(parts),
                      AddInstruction(lookups, command), lookup_type, name)

\* The loop over the parts of the instruction string.
RECURSIVE ProcessParts(_, _, _, _)
ProcessParts(parts, lookups, lookup_type, name) ==
    IF parts = <<>> THEN lookups
    ELSE LET part == Head(parts)
             command == get_command(part)
         IN  IF part = <<>>
             THEN ProcessParts(Tail(parts), lookups, lookup_type, name)
             ELSE IF IsCS(command)
             THEN ProcessParts(Tail(parts),
                      MatMul(lookups, lookups_from_cs(command.arg, lookup_type, name)),
                      lookup_type, name)
             ELSE ProcessParts(Tail(parts), AddInstruction(lookups, command),
                      lookup_type, name)

\* The lookups an admitted node gives, in the order they are appended.
Explode(n, i) ==
    ProcessParts(Split(n.instruction),
                 <<Lookup(n.id, n.table, n.display, n.comment, <<>>,
                          MSAnd(n.attribs), n.prio, i)>>,
                 n.type, n.name)

\* Mutant of Store: the lookups of type Line go to point_lookups.
MutStoreLineAsPoint(t, lookup_type, name, lookups) ==
    CASE lookup_type \in {"Point", "Line"} ->
           [t EXCEPT !.point_lookups =
               [SetDefault(@, name) EXCEPT ![name] = @ \o lookups]]
      [] lookup_type = "Area" ->
           [t EXCEPT !.polygon_lookups =
               [SetDefault(@, name) EXCEPT ![name] = @ \o lookups]]
      [] OTHER -> t

\* lookup_table = <table of the type>.setdefault(name, []), then the appends.
Store(t, lookup_type, name, lookups) ==
    CASE lookup_type = "Point" ->
           [t EXCEPT !.point_lookups =
               [SetDefault(@, name) EXCEPT ![name] = @ \o lookups]]
      [] lookup_type = "Line" ->
           [t EXCEPT !.line_lookups =
               [SetDefault(@, name) EXCEPT ![name] = @ \o lookups]]
      [] lookup_type = "Area" ->
           [t EXCEPT !.polygon_lookups =
               [SetDefault(@, name) EXCEPT ![name] = @ \o lookups]]
      [] OTHER -> t

\* The virtual lookup for X-SNDG.
VirtualSNDG ==
    MatMul(MatMul(<<Lookup("X-SNDG", None, None,
                           "non-SOUNDG features with sounding", <<>>, <<>>,
                           "AreaSymbol", 0)>>,
                  <<Lookup("", "Paper", None, "", <<>>, <<>>, None, 0),
                    Lookup("", "Simplified", None, "", <<>>, <<>>, None, 0)>>),
           lookups_from_cs(<<"S", "O", "U", "N", "D", "G">>, "Point", "X-SNDG"))

\* One iteration of load_lookups' loop on node n, the i-th of root: the
\* tables afterwards.
load_lookup(t, n, i, a, excluded) ==
    IF LookupRaises(n) THEN t
    ELSE IF n.name \in Range(excluded) THEN t
    ELSE LET stored == IF Admitted(n, a)
                       THEN Store(t, n.type, n.name, Explode(n, i))
                       ELSE t
         IN  [stored EXCEPT !.point_lookups = Put(@, "X-SNDG", VirtualSNDG)]

IdleMain ==
    /\ argv = <<>> /\ pc = "idle" /\ exit_status = -1 /\ environ = None
    /\ paths = <<>> /\ rules = <<>> /\ calls = <<>>

CatInit ==
    /\ file_exists \in BOOLEAN
    /\ root \in IF file_exists THEN Documents ELSE {<<>>}
    /\ args_cs \in Arguments
    /\ cs_pc = "new"
    /\ pos = 0
    /\ excluded_lookups = <<"M_QUAL">>
    /\ symbols_def = EmptyDict
    /\ point_lookups = EmptyDict
    /\ line_lookups = EmptyDict
    /\ polygon_lookups = EmptyDict
    /\ before = Tables
    /\ layer = NoLayer

\* __init__ up to the call of load_symbols.
Construct ==
    /\ cs_pc = "new"
    /\ IF ~file_exists
       THEN /\ cs_pc' = "raised"
            /\ UNCHANGED <<pos, excluded_lookups, symbols_def, point_lookups,
                           line_lookups, polygon_lookups, before>>
       ELSE /\ excluded_lookups' = IF args_cs.excluded_lookups.none
                                   THEN excluded_lookups
                                   ELSE args_cs.excluded_lookups.list
            /\ symbols_def' = EmptyDict
            /\ point_lookups' = EmptyDict
            /\ line_lookups' = EmptyDict
            /\ polygon_lookups' = EmptyDict
            /\ before' = Tables
            /\ pos' = 1
            /\ cs_pc' = "symbols"
    /\ UNCHANGED main_vars
    /\ UNCHANGED <<file_exists, root, args_cs, layer>>

\* load_symbols: one <symbol> node.
LoadSymbol ==
    /\ cs_pc = "symbols"
    /\ pos <= Len(Iter(root, "symbol"))
    /\ symbols_def' = load_symbol(symbols_def, root[Iter(root, "symbol")[pos]])
    /\ before' = Tables
    /\ pos' = pos + 1
    /\ UNCHANGED main_vars
    /\ UNCHANGED <<file_exists, root, args_cs, cs_pc, excluded_lookups,
                   point_lookups, line_lookups, polygon_lookups, layer>>

\* load_symbols returns, load_lookups starts.
CallLoadLookups ==
    /\ cs_pc = "symbols"
    /\ pos > Len(Iter(root, "symbol"))
    /\ cs_pc' = "lookups"
    /\ pos' = 1
    /\ before' = Tables
    /\ UNCHANGED main_vars
    /\ UNCHANGED <<file_exists, root, args_cs, excluded_lookups, symbols_def,
                   point_lookups, line_lookups, polygon_lookups, layer>>

\* load_lookups: one <lookup> node.
LoadLookup ==
    /\ cs_pc = "lookups"
    /\ pos <= Len(Iter(root, "lookup"))
    /\ LET i == Iter(root, "lookup")[pos]
           t == load_lookup(Tables, root[i], i, args_cs, excluded_lookups)
       IN  /\ point_lookups' = t.point_lookups
           /\ line_lookups' = t.line_lookups
           /\ polygon_lookups' = t.polygon_lookups
    /\ before' = Tables
    /\ pos' = pos + 1
    /\ UNCHANGED main_vars
    /\ UNCHANGED <<file_exists, root, args_cs, cs_pc, excluded_lookups,
                   symbols_def, layer>>

\* load_lookups and __init__ return.
Constructed ==
    /\ cs_pc = "lookups"
    /\ pos > Len(Iter(root, "lookup"))
    /\ cs_pc' = "ready"
    /\ before' = Tables
    /\ UNCHANGED main_vars
    /\ UNCHANGED <<file_exists, root, args_cs, pos, excluded_lookups,
                   symbols_def, point_lookups, line_lookups, polygon_lookups,
                   layer>>

\* The feature names the layers are asked for.
Features == {"DEPARE", "LIGHTS", "SOUNDG"}

get_point_mapfile(feature) ==
    /\ cs_pc = "ready"
    /\ layer' = Layer(feature, "POINT", Get(point_lookups, feature),
                      feature = "LIGHTS")
    /\ before' = Tables
    /\ UNCHANGED main_vars
    /\ UNCHANGED <<file_exists, root, args_cs, cs_pc, pos, excluded_lookups,
                   symbols_def, point_lookups, line_lookups, polygon_lookups>>

get_line_mapfile(feature_type) ==
    /\ cs_pc = "ready"
    /\ layer' = Layer(feature_type, "LINE", Get(line_lookups, feature_type), FALSE)
    /\ before' = Tables
    /\ UNCHANGED main_vars
    /\ UNCHANGED <<file_exists, root, args_cs, cs_pc, pos, excluded_lookups,
                   symbols_def, point_lookups, line_lookups, polygon_lookups>>

get_poly_mapfile(feature_type) ==
    /\ cs_pc = "ready"
    /\ layer' = Layer(feature_type, "POLYGON", Get(polygon_lookups, feature_type),
                      FALSE)
    /\ before' = Tables
    /\ UNCHANGED main_vars
    /\ UNCHANGED <<file_exists, root, args_cs, cs_pc, pos, excluded_lookups,
                   symbols_def, point_lookups, line_lookups, polygon_lookups>>

Next ==
    \/ Construct
    \/ LoadSymbol
    \/ CallLoadLookups
    \/ LoadLookup
    \/ Constructed
    \/ \E f \in Features : get_point_mapfile(f)
    \/ \E f \in Features : get_line_mapfile(f)
    \/ \E f \in Features : get_poly_mapfile(f)

Init == CatInit /\ IdleMain
Spec == Init /\ [][Next]_vars

\* ------------------------------------------------------------------------
\* Properties of ChartSymbols
\* ------------------------------------------------------------------------
\* The exclusion list E the catalog was constructed with (the class's
\* default when the argument is None).
ExclusionList ==
    IF args_cs.excluded_lookups.none THEN <<"M_QUAL">>
    ELSE args_cs.excluded_lookups.list

\* Node i of root is a <lookup> with all its required children.
WellFormedLookup(i) ==
    /\ root[i].tag = "lookup"
    /\ \A c \in LookupChildren : c \notin root[i].absent

\* Node i passes the filters the claims name: its name is not in E, its
\* table-name is P, A or 'Lines', its display-cat is in D (any, for None).
PassesFilters(i) ==
    /\ root[i].name \notin Range(ExclusionList)
    /\ root[i].table \in {args_cs.point_table, args_cs.area_table, "Lines"}
    /\ \/ args_cs.displaycategory.none
       \/ root[i].display \in Range(args_cs.displaycategory.list)

\* Every lookup of table t, the keys in exempt aside, was built from a
\* <lookup> node of that name that passes the filters.
AllFromAdmitted(t, exempt) ==
    \A k \in DOMAIN t \ exempt : \A j \in 1..Len(t[k]) :
        LET i == t[k][j].src
        IN  /\ i \in 1..Len(root)
            /\ WellFormedLookup(i)
            /\ root[i].name = k
            /\ PassesFilters(i)

\* Some lookup built from node i is stored in table t under key k.
StoredFrom(t, k, i) ==
    k \in DOMAIN t /\ \E j \in 1..Len(t[k]) : t[k][j].src = i

TableOfType(type) ==
    CASE type = "Point" -> point_lookups
      [] type = "Line" -> line_lookups
      [] type = "Area" -> polygon_lookups
      [] OTHER -> EmptyDict

Geometries == {"Point", "Line", "Area"}

\* C1: every lookup stored in point_lookups, line_lookups or
\* polygon_lookups, the virtual 'X-SNDG' entry aside, comes from a <lookup>
\* node whose name is not in E, whose table-name is P, A or 'Lines' and whose
\* display-cat is in D; with D None, the display-cat of a node never keeps it
\* out: every node that passes the other two filters is stored.
C1_StoredLookupsPassFilters ==
    /\ AllFromAdmitted(point_lookups, {"X-SNDG"})
    /\ AllFromAdmitted(line_lookups, {})
    /\ AllFromAdmitted(polygon_lookups, {})
    /\ (cs_pc = "ready" /\ args_cs.displaycategory.none) =>
          \A i \in 1..Len(root) :
             (/\ WellFormedLookup(i)
              /\ root[i].type \in Geometries
              /\ root[i].name \notin Range(ExclusionList)
              /\ root[i].table \in {args_cs.point_table, args_cs.area_table, "Lines"})
             => StoredFrom(TableOfType(root[i].type), root[i].name, i)

\* A catalog given display categories is loaded: one node is stored and
\* another, of a category that is not among them, is not.
C1_Witness ==
    /\ cs_pc = "ready"
    /\ ~args_cs.displaycategory.none
    /\ \E i, j \in 1..Len(root) :
          /\ WellFormedLookup(i) /\ root[i].type \in Geometries
          /\ StoredFrom(TableOfType(root[i].type), root[i].name, i)
          /\ WellFormedLookup(j) /\ root[j].type \in Geometries
          /\ root[j].display \notin Range(args_cs.displaycategory.list)
          /\ ~StoredFrom(TableOfType(root[j].type), root[j].name, j)

\* The node the last step of a loading loop handled (0: none).
LastNode ==
    IF cs_pc = "symbols" /\ pos > 1 THEN Iter(root, "symbol")[pos - 1]
    ELSE IF cs_pc = "lookups" /\ pos > 1 THEN Iter(root, "lookup")[pos - 1]
    ELSE 0

\* Node i is malformed in the claim's sense: a <lookup> lacking a required
\* child, or a <symbol> lacking name, bitmap, pivot or an integer width or
\* height.
Malformed(i) ==
    IF root[i].tag = "lookup" THEN ~WellFormedLookup(i)
    ELSE \/ root[i].absent \cap {"name", "bitmap", "pivot", "width", "height"} # {}
         \/ root[i].width = <<>> \/ root[i].height = <<>>
         \/ \E c \in 1..Len(root[i].width) : root[i].width[c] \notin Digits
         \/ \E c \in 1..Len(root[i].height) : root[i].height[c] \notin Digits

\* Node i, a well-formed one, is loaded: a symbol is in symbols_def with its
\* size, a lookup that passes the filters has its lookups in its table.
Loaded(i) ==
    IF root[i].tag = "symbol"
    THEN /\ root[i].name \in DOMAIN symbols_def
         /\ \E j \in i..Len(root) :
               /\ root[j].tag = "symbol" /\ ~Malformed(j)
               /\ root[j].name = root[i].name
               /\ symbols_def[root[i].name].size =
                     <<IntOf(root[j].width), IntOf(root[j].height)>>
    ELSE (PassesFilters(i) /\ root[i].type \in Geometries)
            => StoredFrom(TableOfType(root[i].type), root[i].name, i)

\* C2: a malformed <lookup> or <symbol> node is skipped without raising and
\* leaves point_lookups, line_lookups, polygon_lookups and symbols_def as
\* they were before it, and every well-formed node, those after a malformed
\* one included, is loaded.
C2_MalformedNodesIgnored ==
    /\ (LastNode # 0 /\ Malformed(LastNode)) => Tables = before
    /\ cs_pc = "raised" => ~file_exists
    /\ cs_pc = "ready" => \A i \in 1..Len(root) : ~Malformed(i) => Loaded(i)

\* A malformed node came first and a well-formed one after it is loaded.
C2_Witness ==
    /\ cs_pc = "ready"
    /\ Len(root) = 2
    /\ Malformed(1) /\ ~Malformed(2)
    /\ \/ root[2].tag = "symbol" /\ root[2].name \in DOMAIN symbols_def
       \/ /\ root[2].tag = "lookup" /\ root[2].type \in Geometries
          /\ StoredFrom(TableOfType(root[2].type), root[2].name, 2)

BeforeTableOfType(type) ==
    CASE type = "Point" -> before.point_lookups
      [] type = "Line" -> before.line_lookups
      [] type = "Area" -> before.polygon_lookups
      [] OTHER -> EmptyDict

\* The non-empty parts of an instruction string, left to right: its maximal
\* runs of characters other than ';'.
PartsOf(s) ==
    LET starts == { a \in 1..Len(s) : s[a] # ";" /\ (a = 1 \/ s[a - 1] = ";") }
        EndOf(a) == CHOOSE b \in a..Len(s) :
                       /\ \A c \in a..b : s[c] # ";"
                       /\ (b = Len(s) \/ s[b + 1] = ";")
        order == CHOOSE f \in [1..Cardinality(starts) -> starts] :
                    \A x, y \in 1..Cardinality(starts) : x < y => f[x] < f[y]
    IN  [k \in 1..Cardinality(starts) |-> SubSeq(s, order[k], EndOf(order[k]))]

IsCSPart(part) == Len(part) >= 2 /\ part[1] = "C" /\ part[2] = "S"
ProcOf(part) == SubSeq(part, 4, Len(part) - 1)

RECURSIVE Product(_)
Product(ns) == IF ns = <<>> THEN 1 ELSE Head(ns) * Product(Tail(ns))

\* The outcomes a lookup's CS instructions stand for, left to right.
Outcomes(l) ==
    LET cs == SelectSeq(l.instruction, LAMBDA c : c.outcome # 0)
    IN  [k \in 1..Len(cs) |-> cs[k].outcome]

RECURSIVE LexLess(_, _)
LexLess(u, v) ==
    /\ u # <<>> /\ v # <<>>
    /\ \/ Head(u) < Head(v)
       \/ Head(u) = Head(v) /\ LexLess(Tail(u), Tail(v))

\* seg is what node i, of instruction parts `parts`, contributes: one lookup
\* per combination of the outcomes of its CS parts, in order, each with one
\* instruction per part, in the order of the parts.
Contribution(seg, i, parts) ==
    LET n == root[i]
        outs(k) == lookups_from_cs(ProcOf(parts[k]), n.type, n.name)
        counts == [k \in 1..Len(parts) |->
                      IF IsCSPart(parts[k]) THEN Len(outs(k)) ELSE 1]
    IN  /\ Len(seg) = Product(counts)
        /\ (\A k \in 1..Len(parts) : ~IsCSPart(parts[k])) => Len(seg) = 1
        /\ \A j \in 1..Len(seg) :
              /\ seg[j].src = i /\ seg[j].id = n.id
              /\ seg[j].table = n.table /\ seg[j].display = n.display
              /\ Len(seg[j].instruction) = Len(parts)
              /\ \A k \in 1..Len(parts) :
                    IF IsCSPart(parts[k])
                    THEN \E o \in 1..Len(outs(k)) :
                            seg[j].instruction[k] = outs(k)[o].instruction[1]
                    ELSE /\ seg[j].instruction[k].kind = SubSeq(parts[k], 1, 2)
                         /\ seg[j].instruction[k].arg = ProcOf(parts[k])
                         /\ seg[j].instruction[k].outcome = 0
        /\ \A j \in 1..(Len(seg) - 1) :
              LexLess(Outcomes(seg[j]), Outcomes(seg[j + 1]))

\* C3: after load_lookups has handled an admitted <lookup> node of type
\* Point, Line or Area, the list stored under its name in the table of its
\* type is the list as it was, followed by the node's lookups: the
\* instruction string split on ';', empty parts skipped, each other part an
\* instruction of every lookup in the order of the parts, each CS part
\* multiplying the lookups by those of lookups_from_cs(procedure, type,
\* name); a node without a CS part gives exactly one lookup.
C3_InstructionsExploded ==
    (/\ cs_pc = "lookups" /\ LastNode # 0
     /\ WellFormedLookup(LastNode) /\ PassesFilters(LastNode)
     /\ root[LastNode].type \in Geometries)
    => LET n == root[LastNode]
           new == Get(TableOfType(n.type), n.name)
           old == Get(BeforeTableOfType(n.type), n.name)
       IN  /\ n.name \in DOMAIN TableOfType(n.type)
           /\ Len(new) >= Len(old)
           /\ SubSeq(new, 1, Len(old)) = old
           /\ Contribution(SubSeq(new, Len(old) + 1, Len(new)), LastNode,
                           PartsOf(n.instruction))

\* A node whose instruction has an empty part, a CS part and instructions
\* on both sides of it was appended to a list that held lookups already.
C3_Witness ==
    /\ cs_pc = "lookups" /\ LastNode = 2
    /\ WellFormedLookup(2) /\ PassesFilters(2)
    /\ root[2].instruction = SY_A \o Semi \o Semi \o CS_L \o Semi \o LS_B
    /\ Len(Get(before.point_lookups, root[2].name)) > 0
    /\ Len(Get(point_lookups, root[2].name))
          = Len(Get(before.point_lookups, root[2].name)) + 3

\* Every lookup of table t was built from a node of the given type; the
\* lookups built from no node are the virtual ones, under exempt keys.
AllOfType(t, type, exempt) ==
    \A k \in DOMAIN t : \A j \in 1..Len(t[k]) :
        IF t[k][j].src = 0 THEN k \in exempt
        ELSE root[t[k][j].src].type = type

\* C4: a layer returned by get_point_mapfile, get_line_mapfile or
\* get_poly_mapfile holds exactly the lookups stored under the feature in
\* point_lookups, line_lookups or polygon_lookups respectively, none when
\* the feature is no key of that table; the call leaves the three tables as
\* they were, keys included; and the tables hold lookups of their own type
\* only, those of a type other than Point, Line and Area being in none.
C4_QueriesReadOnly ==
    /\ layer # NoLayer =>
          LET t == CASE layer.type = "POINT" -> point_lookups
                     [] layer.type = "LINE" -> line_lookups
                     [] layer.type = "POLYGON" -> polygon_lookups
          IN  layer.lookups = IF layer.feature \in DOMAIN t
                              THEN t[layer.feature] ELSE <<>>
    /\ cs_pc = "ready" => Tables = before
    /\ AllOfType(point_lookups, "Point", {"X-SNDG"})
    /\ AllOfType(line_lookups, "Line", {})
    /\ AllOfType(polygon_lookups, "Area", {})

\* A line layer was asked for a feature that has point lookups and no line
\* lookups, in a catalog that holds line lookups of another feature.
C4_Witness ==
    /\ cs_pc = "ready"
    /\ layer.type = "LINE" /\ layer.feature = "LIGHTS"
    /\ layer.lookups = <<>>
    /\ "LIGHTS" \in DOMAIN point_lookups
    /\ "LIGHTS" \notin DOMAIN line_lookups
    /\ "DEPARE" \in DOMAIN line_lookups

\* ------------------------------------------------------------------------
\* os.path: a path is absolute or not and has components
\* ------------------------------------------------------------------------
Path(abs, parts) == [abs |-> abs, parts |-> parts]
Rel(parts) == Path(FALSE, parts)
Abs(parts) == Path(TRUE, parts)
EmptyPath == Rel(<<>>)

\* os.path.join(a, b)
Join(a, b) ==
    IF b.abs THEN b ELSE Path(a.abs, a.parts \o b.parts)

\* os.path.normpath(p): '..' takes the component before it away, except a
\* leading '..' of a relative path, which stays; '/..' is '/'.
RECURSIVE NormParts(_, _, _)
NormParts(abs, todo, done) ==
    IF todo = <<>> THEN done
    ELSE IF Head(todo) # ".." THEN NormParts(abs, Tail(todo), Append(done, Head(todo)))
    ELSE IF done # <<>> /\ done[Len(done)] # ".."
         THEN NormParts(abs, Tail(todo), SubSeq(done, 1, Len(done) - 1))
    ELSE IF abs THEN NormParts(abs, Tail(todo), done)
    ELSE NormParts(abs, Tail(todo), Append(done, ".."))

NormPath(p) == Path(p.abs, NormParts(p.abs, p.parts, <<>>))

\* os.getcwd()
Cwd == Abs(<<"work">>)

\* os.path.abspath(p)
AbsPath(p) == NormPath(Join(Cwd, p))

\* os.path.dirname(p)
DirName(p) ==
    IF p.parts = <<>> THEN p ELSE Path(p.abs, SubSeq(p.parts, 1, Len(p.parts) - 1))

\* RESOURCES_PATH
RESOURCES_PATH == Abs(<<"opt", "smac", "resources">>)

\* config_relative(path, args)
config_relative(path, a) == AbsPath(NormPath(Join(DirName(a.config_file), path)))

\* dirutils.force_sub_dir(path, 'rules'): the path, in its 'rules' folder.
force_sub_dir(p, sub) ==
    IF p.parts # <<>> /\ p.parts[Len(p.parts)] = sub THEN p
    ELSE Path(p.abs, Append(p.parts, sub))

\* str.lower()
LowerChar(c) ==
    CASE c = "R" -> "r" [] c = "I" -> "i" [] c = "G" -> "g" [] c = "D" -> "d"
      [] c = "F" -> "f" [] c = "L" -> "l" [] c = "O" -> "o" [] c = "A" -> "a"
      [] c = "T" -> "t" [] c = "N" -> "n" [] c = "X" -> "x" [] c = "E" -> "e"
      [] OTHER -> c

Lower(str) == [j \in 1..Len(str) |-> LowerChar(str[j])]

\* ------------------------------------------------------------------------
\* generate_map_config.py
\* ------------------------------------------------------------------------
\* class Format
Format == {"chart", "basechart", "geotif", "elevation", "aml"}

\* A value of the configuration: given or not, and what it is.
Given(v) == [given |-> TRUE, v |-> v]
NotGiven(v) == [given |-> FALSE, v |-> v]

\* bool(value) of a path the configuration may give: None and '' are false.
Truthy(opt) == opt.given /\ opt.v # EmptyPath

DataPaths ==
    { NotGiven(EmptyPath), Given(Rel(<<"data">>)),
      Given(Rel(<<"..", "charts", "data">>)), Given(Abs(<<"srv", "enc">>)),
      Given(Abs(<<>>)) }
MapPaths ==
    { NotGiven(EmptyPath), Given(EmptyPath), Given(Rel(<<"..", "out">>)),
      Given(Abs(<<"srv", "map">>)) }
RulesetPaths == { NotGiven(EmptyPath), Given(Rel(<<"myrules">>)) }
TopmarkTypes ==
    { NotGiven(<<>>), Given(<<"r", "i", "g", "i", "d">>),
      Given(<<"R", "i", "g", "i", "d">>),
      Given(<<"F", "L", "O", "A", "T", "I", "N", "G">>),
      Given(<<"f", "i", "x", "e", "d">>) }

\* The TOML configurations: without a paths table, or with one.
Configs ==
    { [has_paths |-> FALSE, data |-> NotGiven(EmptyPath),
       map |-> NotGiven(EmptyPath), ruleset |-> NotGiven(EmptyPath),
       topmark_type |-> t] : t \in TopmarkTypes }
    \cup [has_paths : {TRUE}, data : DataPaths, map : MapPaths,
          ruleset : RulesetPaths, topmark_type : TopmarkTypes]

\* A run: the command line, whether toml.load succeeds and what it gives,
\* and what dirutils finds at the rule set path.
Runs ==
    [config_file : {Rel(<<"chart.toml">>), Abs(<<"etc", "smac", "chart.toml">>)},
     format : [given : {TRUE}, v : Format \cup {"png"}] \cup {NotGiven("")},
     force : BOOLEAN,
     toml_ok : {TRUE},
     config : Configs,
     color_tables_exist : BOOLEAN,
     layer_rules_exist : BOOLEAN]
    \cup
    [config_file : {Rel(<<"chart.toml">>)},
     format : {NotGiven("")},
     force : {FALSE},
     toml_ok : {FALSE},
     config : {CHOOSE c \in Configs : ~c.has_paths /\ ~c.topmark_type.given},
     color_tables_exist : {FALSE},
     layer_rules_exist : {FALSE}]

Call(fn, path, data_path, rule_set_path, force, symbolset) ==
    [fn |-> fn, path |-> path, data_path |-> data_path,
     rule_set_path |-> rule_set_path, force |-> force, symbolset |-> symbolset]

NoPaths == [data_path |-> EmptyPath, map_path |-> EmptyPath,
            rule_set_path |-> EmptyPath, resolved |-> FALSE]

IdleCatalog ==
    /\ file_exists = FALSE /\ root = <<>> /\ args_cs = <<>> /\ cs_pc = "idle"
    /\ pos = 0 /\ excluded_lookups = <<>> /\ symbols_def = EmptyDict
    /\ point_lookups = EmptyDict /\ line_lookups = EmptyDict
    /\ polygon_lookups = EmptyDict /\ before = <<>> /\ layer = NoLayer

MainInit ==
    /\ argv \in Runs
    /\ pc = "parse_arguments"
    /\ exit_status = -1
    /\ environ = None
    /\ paths = NoPaths
    /\ rules = [color_tables |-> IF argv.color_tables_exist THEN "present" ELSE "absent",
                layer_rules |-> IF argv.layer_rules_exist THEN "present" ELSE "absent"]
    /\ calls = <<>>

\* args.format: the type and the default of the format argument.
ParsedFormat(a) == IF a.format.given THEN a.format.v ELSE "chart"

\* sys.exit(status) at the current position.
Exit(status) ==
    /\ exit_status' = status
    /\ UNCHANGED <<argv, pc, environ, paths, rules, calls>>

Running(at) == pc = at /\ exit_status = -1

\* parse_arguments(): argparse rejects a format that is no Format with
\* status 2; a configuration file that does not load exits with 1.
ParseArguments ==
    /\ Running("parse_arguments")
    /\ IF ParsedFormat(argv) \notin Format THEN Exit(2)
       ELSE IF ~argv.toml_ok THEN Exit(1)
       ELSE /\ pc' = "data_path"
            /\ UNCHANGED <<argv, exit_status, environ, paths, rules, calls>>
    /\ UNCHANGED cat_vars

\* Mutant of DataPathMissing: only a missing paths table is noticed.
MutDataPathMissing(config) == ~config.has_paths

\* args.config['paths']['data'] raises KeyError.
DataPathMissing(config) == ~config.has_paths \/ ~config.data.given

\* data_path = args.config['paths']['data'], or exit
ReadDataPath ==
    /\ Running("data_path")
    /\ IF DataPathMissing(argv.config) THEN Exit(1)
       ELSE /\ pc' = "paths"
            /\ UNCHANGED <<argv, exit_status, environ, paths, rules, calls>>
    /\ UNCHANGED cat_vars

\* Mutant of MapPath: the default is the folder 'map' inside the data.
MutMapPathInData(a, data_path) ==
    IF ~Truthy(a.config.map)
    THEN NormPath(Join(data_path, Rel(<<"map">>)))
    ELSE config_relative(a.config.map.v, a)

\* map_path: next to the data unless the configuration gives one.
MapPath(a, data_path) ==
    IF ~Truthy(a.config.map)
    THEN NormPath(Join(data_path, Rel(<<"..", "map">>)))
    ELSE config_relative(a.config.map.v, a)

RuleSetPath(a) ==
    force_sub_dir(IF ~Truthy(a.config.ruleset) THEN RESOURCES_PATH
                  ELSE config_relative(a.config.ruleset.v, a),
                  "rules")

\* data_path, map_path and rule_set_path are resolved.
ResolvePaths ==
    /\ Running("paths")
    /\ LET data_path == config_relative(argv.config.data.v, argv)
       IN  paths' = [data_path |-> data_path,
                     map_path |-> MapPath(argv, data_path),
                     rule_set_path |-> RuleSetPath(argv),
                     resolved |-> TRUE]
    /\ pc' = "color_rules"
    /\ UNCHANGED <<argv, exit_status, environ, rules, calls>>
    /\ UNCHANGED cat_vars

\* The colour rules are created: the condition of the script.
CreatesColorRules(a, r) == r.color_tables = "absent"

ColorRules ==
    /\ Running("color_rules")
    /\ IF CreatesColorRules(argv, rules)
       THEN /\ rules' = [rules EXCEPT !.color_tables = "created"]
            /\ calls' = Append(calls,
                  Call("create_color_rules",
                       Join(paths.rule_set_path, Rel(<<"color_tables">>)),
                       EmptyPath, EmptyPath, FALSE, 0))
       ELSE UNCHANGED <<rules, calls>>
    /\ pc' = "topmark_type"
    /\ UNCHANGED <<argv, exit_status, environ, paths>>
    /\ UNCHANGED cat_vars

\* Mutant of TopmarType: the value is compared as it is written.
MutTopmarTypeAsWritten(config) ==
    IF config.topmark_type.given THEN config.topmark_type.v
    ELSE <<"r", "i", "g", "i", "d">>

\* topmar_type = args.config.get('topmark_type', 'rigid').lower()
TopmarType(config) ==
    Lower(IF config.topmark_type.given THEN config.topmark_type.v
          ELSE <<"r", "i", "g", "i", "d">>)

TopmarkType ==
    /\ Running("topmark_type")
    /\ IF TopmarType(argv.config) = <<"r", "i", "g", "i", "d">>
       THEN /\ environ' = ""
            /\ pc' = "format"
            /\ UNCHANGED <<argv, exit_status, paths, rules, calls>>
       ELSE IF TopmarType(argv.config) = <<"f", "l", "o", "a", "t", "i", "n", "g">>
       THEN /\ environ' = "1"
            /\ pc' = "format"
            /\ UNCHANGED <<argv, exit_status, paths, rules, calls>>
       ELSE Exit(2)
    /\ UNCHANGED cat_vars

\* The layer rules are created: the condition of the script.
CreatesLayerRules(a, r) == r.layer_rules = "absent" \/ a.force

\* Mutant of FormatDispatch: the other formats do not exit.
MutFormatDispatchNoExit ==
    /\ Running("format")
    /\ calls' = IF ParsedFormat(argv) = "chart"
                THEN Append(calls, Call("generate_basechart_config", paths.map_path,
                                        paths.data_path, paths.rule_set_path,
                                        argv.force, 0))
                ELSE calls
    /\ pc' = "symbolsets"
    /\ UNCHANGED <<argv, exit_status, environ, paths, rules>>
    /\ UNCHANGED cat_vars

\* if args.format is Format.Chart: ... else: sys.exit(1)
FormatDispatch ==
    /\ Running("format")
    /\ IF ParsedFormat(argv) = "chart"
       THEN /\ rules' = IF CreatesLayerRules(argv, rules)
                        THEN [rules EXCEPT !.layer_rules = "created"]
                        ELSE rules
            /\ calls' = (IF CreatesLayerRules(argv, rules)
                         THEN Append(calls,
                                 Call("create_layer_rules",
                                      Join(paths.rule_set_path, Rel(<<"layer_rules">>)),
                                      EmptyPath, EmptyPath, FALSE, 0))
                         ELSE calls)
                        \o <<Call("generate_basechart_config", paths.map_path,
                                  paths.data_path, paths.rule_set_path,
                                  argv.force, 0)>>
            /\ pc' = "symbolsets"
            /\ UNCHANGED <<argv, exit_status, environ, paths>>
       ELSE Exit(1)
    /\ UNCHANGED cat_vars

\* The symbolsets generated so far.
Generated == Cardinality({ j \in 1..Len(calls) : calls[j].fn = "generate_symbolset" })

\* for symbolset in symbolsets: generate_symbolset(...)
GenerateSymbolset ==
    /\ Running("symbolsets")
    /\ Generated < NumSymbolsets
    /\ calls' = Append(calls,
          Call("generate_symbolset", Join(paths.map_path, Rel(<<"symbols">>)),
               EmptyPath, EmptyPath, FALSE, Generated + 1))
    /\ UNCHANGED <<argv, pc, exit_status, environ, paths, rules>>
    /\ UNCHANGED cat_vars

\* The script ends.
Finish ==
    /\ Running("symbolsets")
    /\ Generated = NumSymbolsets
    /\ exit_status' = 0
    /\ pc' = "end"
    /\ UNCHANGED <<argv, environ, paths, rules, calls>>
    /\ UNCHANGED cat_vars

NextMain ==
    \/ ParseArguments
    \/ ReadDataPath
    \/ ResolvePaths
    \/ ColorRules
    \/ TopmarkType
    \/ FormatDispatch
    \/ GenerateSymbolset
    \/ Finish

InitMain == MainInit /\ IdleCatalog
SpecMain == InitMain /\ [][NextMain]_vars

\* ------------------------------------------------------------------------
\* Properties of generate_map_config.py
\* ------------------------------------------------------------------------
Exited == exit_status # -1

CallsOf(fn) == { j \in 1..Len(calls) : calls[j].fn = fn }

InitialRules ==
    [color_tables |-> IF argv.color_tables_exist THEN "present" ELSE "absent",
     layer_rules |-> IF argv.layer_rules_exist THEN "present" ELSE "absent"]

\* C5: with a configuration that has no paths.data, or no paths table, the
\* script goes no further than the check of the data path, where it exits
\* with status 1: no colour rules and no layer rules are created,
\* generate_basechart_config is not called and no symbolset is generated.
C5_DataPathRequired ==
    (argv.toml_ok /\ (~argv.config.has_paths \/ ~argv.config.data.given)) =>
        /\ pc \in {"parse_arguments", "data_path"}
        /\ pc = "data_path" => (exit_status \in {-1, 1} /\ (Exited \/ ENABLED ReadDataPath))
        /\ exit_status # 0
        /\ calls = <<>>
        /\ rules = InitialRules
        /\ ~paths.resolved

\* A configuration with a paths table and no data in it made the script exit.
C5_Witness ==
    /\ pc = "data_path" /\ exit_status = 1
    /\ argv.config.has_paths /\ ~argv.config.data.given
    /\ argv.config.map.given
    /\ calls = <<>>

\* C6: in a run that ends well, --force regenerates the rules under the rule
\* set path, the colour rules and the layer rules, even if they exist;
\* without it the rules that exist are left as they are and the missing ones
\* are created.
C6_ForceOverwritesRuleSet ==
    pc = "end" =>
        IF argv.force
        THEN rules = [color_tables |-> "created", layer_rules |-> "created"]
        ELSE rules = [color_tables |-> IF argv.color_tables_exist
                                       THEN "present" ELSE "created",
                      layer_rules |-> IF argv.layer_rules_exist
                                      THEN "present" ELSE "created"]

\* The directory of the configuration file, and a path of the configuration
\* resolved relative to it.
ConfigDir ==
    IF argv.config_file.abs THEN DirName(argv.config_file)
    ELSE Path(TRUE, Cwd.parts \o DirName(argv.config_file).parts)

ResolvedFromConfigDir(p) == IF p.abs THEN NormPath(p) ELSE NormPath(Join(ConfigDir, p))

\* The directory that contains directory d ('/' contains itself).
Containing(d) ==
    Path(TRUE, IF d.parts = <<>> THEN <<>> ELSE SubSeq(d.parts, 1, Len(d.parts) - 1))

\* C7: the map files are generated in the folder 'map' of the directory that
\* contains the data directory when the configuration gives no paths.map
\* (none, or an empty one), and else in paths.map resolved relative to the
\* directory of the configuration file; the symbolsets go to the 'symbols'
\* folder of that same folder.
C7_OutputFolder ==
    LET data_dir == ResolvedFromConfigDir(argv.config.data.v)
        map_dir == IF ~argv.config.map.given \/ argv.config.map.v = EmptyPath
                   THEN Path(TRUE, Append(Containing(data_dir).parts, "map"))
                   ELSE ResolvedFromConfigDir(argv.config.map.v)
    IN  /\ \A j \in CallsOf("generate_basechart_config") :
              calls[j].data_path = data_dir /\ calls[j].path = map_dir
        /\ \A j \in CallsOf("generate_symbolset") :
              calls[j].path = Path(TRUE, Append(map_dir.parts, "symbols"))
        /\ pc \in {"symbolsets", "end"} => CallsOf("generate_basechart_config") # {}
        /\ pc = "end" => Cardinality(CallsOf("generate_symbolset")) = NumSymbolsets

\* No paths.map, the data above the directory of the configuration file:
\* the run ended with its symbolsets in /etc/charts/map/symbols.
C7_Witness ==
    /\ pc = "end"
    /\ ~argv.config.map.given
    /\ argv.config_file.abs
    /\ argv.config.data.v = Rel(<<"..", "charts", "data">>)
    /\ \E j \in CallsOf("generate_symbolset") :
          calls[j].path = Abs(<<"etc", "charts", "map", "symbols">>)

\* C8: nothing is created or generated before the paths are resolved,
\* generate_basechart_config is given the resolved paths, and a symbolset is
\* generated only after generate_basechart_config was called; with a format
\* other than 'chart' the script goes no further than the choice of the
\* format, where it exits with status 1, and neither function is called.
C8_OneDirection ==
    /\ calls # <<>> => paths.resolved
    /\ \A j \in CallsOf("generate_basechart_config") :
          /\ calls[j].data_path = paths.data_path
          /\ calls[j].path = paths.map_path
          /\ calls[j].rule_set_path = paths.rule_set_path
          /\ paths.data_path.abs /\ paths.map_path.abs /\ paths.rule_set_path.abs
    /\ \A j \in CallsOf("generate_symbolset") :
          \E i \in CallsOf("generate_basechart_config") : i < j
    /\ (ParsedFormat(argv) \in Format \ {"chart"}) =>
          /\ CallsOf("generate_basechart_config") = {}
          /\ CallsOf("generate_symbolset") = {}
          /\ pc \notin {"symbolsets", "end"}
          /\ exit_status # 0
          /\ pc = "format" => (exit_status \in {-1, 1} /\ (Exited \/ ENABLED FormatDispatch))

\* A run of format 'chart' ended: the rules, the map files, the symbolsets.
C8_Witness ==
    /\ pc = "end"
    /\ Len(calls) = 3 + NumSymbolsets
    /\ calls[1].fn = "create_color_rules"
    /\ calls[2].fn = "create_layer_rules"
    /\ calls[3].fn = "generate_basechart_config"
    /\ calls[Len(calls)].fn = "generate_symbolset"

\* The two spellings of a letter.
SameLetter(c, d) ==
    \/ c = d
    \/ \E pair \in { <<"r", "R">>, <<"i", "I">>, <<"g", "G">>, <<"d", "D">>,
                     <<"f", "F">>, <<"l", "L">>, <<"o", "O">>, <<"a", "A">>,
                     <<"t", "T">>, <<"n", "N">> } :
          {c, d} = {pair[1], pair[2]}

\* The topmark_type of the configuration is the word, in any case.
TopmarkIs(word) ==
    LET t == IF argv.config.topmark_type.given THEN argv.config.topmark_type.v
             ELSE <<"r", "i", "g", "i", "d">>
    IN  Len(t) = Len(word) /\ \A j \in 1..Len(word) : SameLetter(t[j], word[j])

WordRigid == <<"r", "i", "g", "i", "d">>
WordFloating == <<"f", "l", "o", "a", "t", "i", "n", "g">>

\* C9: once the script is past the check of topmark_type, the option is
\* 'rigid' (in any case, or absent) and TOPMAR_FLOATING is '', or it is
\* 'floating' (in any case) and TOPMAR_FLOATING is '1'; with any other value
\* the script goes no further than the check, where it exits with status 2,
\* TOPMAR_FLOATING is not set, and generate_basechart_config and
\* generate_symbolset are not called; and no map file is generated before
\* the check.
C9_TopmarkType ==
    /\ pc \in {"format", "symbolsets", "end"} =>
          \/ TopmarkIs(WordRigid) /\ environ = ""
          \/ TopmarkIs(WordFloating) /\ environ = "1"
    /\ pc \notin {"format", "symbolsets", "end"} =>
          /\ environ = None
          /\ CallsOf("generate_basechart_config") = {}
          /\ CallsOf("generate_symbolset") = {}
    /\ pc = "topmark_type" =>
          IF TopmarkIs(WordRigid) \/ TopmarkIs(WordFloating)
          THEN ~Exited /\ ENABLED TopmarkType
          ELSE exit_status \in {-1, 2} /\ (Exited \/ ENABLED TopmarkType)
    /\ ~(TopmarkIs(WordRigid) \/ TopmarkIs(WordFloating)) => exit_status # 0

\* topmark_type = 'fixed' made the script exit with status 2.
C9_Witness ==
    /\ pc = "topmark_type" /\ exit_status = 2
    /\ argv.config.topmark_type.v = <<"f", "i", "x", "e", "d">>
    /\ environ = None
    /\ calls # <<>>

====
